---- MODULE Spec2Model ----
(***************************************************************************)
(* A model of the fountain screenplay package (fountain.go): the line      *)
(* classifier getLineType and its predicates, the document builder Parse   *)
(* (scan loop, title page, run merging, end-of-script flag, corrective     *)
(* pass over Character elements) and the text renderer's wordWrap.         *)
(*                                                                         *)
(* A Go string is a sequence of one-character strings; a line break inside *)
(* a Content is the character "\n".                                        *)
(***************************************************************************)
EXTENDS Integers, Sequences, FiniteSets, TLC

\* ------------------------------------------------------------------------
\* Element types (the iota block of fountain.go)
\* ------------------------------------------------------------------------
GeneralTextType == 0
EmptyType == 1
TitlePageType == 2
SceneHeadingType == 3
ActionType == 4
CharacterType == 5
DialogueType == 6
ParentheticalType == 7
TransitionType == 8
ShotType == 9
LyricType == 10
NoteType == 11
BoneyardType == 12
SectionType == 13
SynopsisType == 14
UnderlineStyle == 15
ItalicStyle == 16
BoldStyle == 17
AllCapsStyle == 18
Strikethrough == 19
CenterAlignment == 20
LeftAlignment == 21
RightAlignment == 22
PageFeed == 23

AllTypes == GeneralTextType..PageFeed

\* ------------------------------------------------------------------------
\* Package strings: the functions of Go's strings package that the code uses
\* ------------------------------------------------------------------------
LowerLetters ==
    <<"a", "b", "c", "d", "e", "f", "g", "h", "i", "j", "k", "l", "m",
      "n", "o", "p", "q", "r", "s", "t", "u", "v", "w", "x", "y", "z">>

UpperLetters ==
    <<"A", "B", "C", "D", "E", "F", "G", "H", "I", "J", "K", "L", "M",
      "N", "O", "P", "Q", "R", "S", "T", "U", "V", "W", "X", "Y", "Z">>

UpperChar(c) ==
    IF \E i \in 1..26 : LowerLetters[i] = c
    THEN UpperLetters[CHOOSE i \in 1..26 : LowerLetters[i] = c]
    ELSE c

ToUpper(s) == [i \in 1..Len(s) |-> UpperChar(s[i])]

IsSpace(c) == c \in {" ", "\t", "\n", "\r"}

TrimSpace(s) ==
    LET keep == {i \in 1..Len(s) : ~IsSpace(s[i])}
    IN  IF keep = {} THEN <<>>
        ELSE SubSeq(s, CHOOSE i \in keep : \A j \in keep : i <= j,
                       CHOOSE i \in keep : \A j \in keep : i >= j)

HasPrefix(s, p) == Len(s) >= Len(p) /\ SubSeq(s, 1, Len(p)) = p

HasSuffix(s, p) == Len(s) >= Len(p) /\ SubSeq(s, Len(s) - Len(p) + 1, Len(s)) = p

Contains(s, p) == \E i \in 0..(Len(s) - Len(p)) : SubSeq(s, i + 1, i + Len(p)) = p

\* index of the first occurrence of the character c in s, 0 when there is none
IndexOf(s, c) ==
    IF \E i \in 1..Len(s) : s[i] = c
    THEN CHOOSE i \in 1..Len(s) : s[i] = c /\ \A j \in 1..(i - 1) : s[j] # c
    ELSE 0

\* strings.Split(s, c) for a one-character separator c
RECURSIVE Split(_, _)
Split(s, c) ==
    LET i == IndexOf(s, c)
    IN  IF i = 0 THEN <<s>>
        ELSE <<SubSeq(s, 1, i - 1)>> \o Split(SubSeq(s, i + 1, Len(s)), c)

\* strings.Join(parts, "") : concatenation
RECURSIVE Concat(_)
Concat(parts) ==
    IF parts = <<>> THEN <<>> ELSE Head(parts) \o Concat(Tail(parts))

\* ------------------------------------------------------------------------
\* The line predicates
\* ------------------------------------------------------------------------
\* reSceneNo = `#*#$` matches exactly the strings that end with '#'
reSceneNoMatch(line) == HasSuffix(line, <<"#">>)

EndMarkers ==
    { <<"T", "H", "E", " ", "E", "N", "D", ".">>,
      <<"T", "H", "E", " ", "E", "N", "D">>,
      <<"L", "A", " ", "F", "I", "N", ".">>,
      <<"L", "A", " ", "F", "I", "N">> }

isSceneHeading(line, prevType) ==
    LET l == ToUpper(TrimSpace(line))
    IN  IF HasPrefix(l, <<"!">>) THEN FALSE
        ELSE \/ reSceneNoMatch(l)
             \/ HasPrefix(l, <<".">>)
             \/ HasPrefix(l, <<"E", "X", "T">>)
             \/ HasPrefix(l, <<"I", "N", "T">>)
             \/ HasPrefix(l, <<"I", "/", "E">>)
             \/ Contains(l, <<" ", "-">>)
             \/ l = <<"F", "A", "D", "E", " ", "I", "N", ":">>
             \/ l \in EndMarkers

isParenthetical(line, prevType) ==
    HasPrefix(line, <<"(">>) /\ Contains(line, <<")">>)

\* isDialogue accepting a line that follows a line of dialogue as well
isDialogueContinued(line, prevType) ==
    IF TrimSpace(line) = <<>> THEN FALSE
    ELSE prevType \in {CharacterType, ParentheticalType, DialogueType}

isDialogue(line, prevType) ==
    IF TrimSpace(line) = <<>> THEN FALSE
    ELSE prevType \in {CharacterType, ParentheticalType}

isCharacter(line, prevType) ==
    IF HasPrefix(line, <<"@">>) THEN TRUE
    ELSE IF line = ToUpper(line) /\ prevType = EmptyType /\ ~isParenthetical(line, prevType)
         THEN LET content == ToUpper(TrimSpace(line))
              IN  IF HasPrefix(content, <<"\"">>) /\ HasSuffix(content, <<"\"">>)
                  THEN FALSE
                  ELSE ~ ( \/ Contains(content, <<"-", "-">>)
                           \/ HasPrefix(content, <<"I", "N", "T", ".">>)
                           \/ HasPrefix(content, <<"E", "X", "T", ".">>)
                           \/ HasSuffix(content, <<"A", "N", "G", "L", "E">>)
                           \/ HasSuffix(content, <<"S", "H", "O", "T">>)
                           \/ HasSuffix(content, <<"P", ".", "O", ".", "V", ".">>)
                           \/ HasSuffix(content, <<":">>) )
         ELSE FALSE

\* isAction refusing the lines that start with the '>' marker
isActionNotMarked(line, prevType) ==
    IF HasPrefix(line, <<"!">>) THEN TRUE
    ELSE IF Len(TrimSpace(line)) = 0 THEN FALSE
    ELSE /\ ~HasPrefix(line, <<">">>)
         /\ ~isSceneHeading(line, prevType)
         /\ ~isCharacter(line, prevType)
         /\ ~isDialogue(line, prevType)
         /\ ~isParenthetical(line, prevType)

isAction(line, prevType) ==
    IF HasPrefix(line, <<"!">>) THEN TRUE
    ELSE IF Len(TrimSpace(line)) = 0 THEN FALSE
    ELSE /\ ~isSceneHeading(line, prevType)
         /\ ~isCharacter(line, prevType)
         /\ ~isDialogue(line, prevType)
         /\ ~isParenthetical(line, prevType)

isTransition(line, prevType) ==
    \/ HasPrefix(line, <<">">>)
    \/ HasSuffix(line, <<"T", "O", ":">>)
    \/ HasSuffix(line, <<"I", "N", ":">>)
    \/ LET l == TrimSpace(line)
       IN  \/ HasPrefix(l, <<"F", "A", "D", "E", " ", "T", "O">>)
           \/ HasPrefix(l, <<">">>)
           \/ Contains(l, <<"T", "H", "E", " ", "E", "N", "D", ".">>)

\* isTitlePage without the test of the previous type
isTitlePageAnyPrev(line, prevType) ==
    /\ ~isSceneHeading(line, prevType)
    /\ ~isTransition(line, prevType)

isTitlePage(line, prevType) ==
    /\ prevType = TitlePageType
    /\ ~isSceneHeading(line, prevType)
    /\ ~isTransition(line, prevType)

isEmpty(line, prevType) ==
    IF prevType = TitlePageType THEN FALSE
    ELSE Len(TrimSpace(line)) = 0

isCenterAlignment(line, prevType) ==
    LET l == TrimSpace(line)
    IN  HasPrefix(l, <<">">>) /\ HasSuffix(l, <<"<">>)

isLyric(line, prevType) ==
    LET l == TrimSpace(line)
    IN  HasPrefix(l, <<"~">>) /\ ~HasSuffix(l, <<"~">>)

isNoteStart(line, prevType) ==
    prevType # NoteType /\ HasPrefix(TrimSpace(line), <<"[", "[">>)

isNoteEnd(line, prevType) ==
    prevType = NoteType /\ HasSuffix(TrimSpace(line), <<"]", "]">>)

isNote(line, prevType) ==
    LET l == TrimSpace(line)
    IN  \/ HasPrefix(l, <<"[", "[">>) /\ HasSuffix(l, <<"]", "]">>)
        \/ isNoteStart(l, prevType)
        \/ isNoteEnd(l, prevType)

isBoneyardStart(line, prevType) ==
    prevType # BoneyardType /\ HasPrefix(TrimSpace(line), <<"/", "*">>)

isBoneyardEnd(line, prevType) ==
    prevType = BoneyardType /\ HasSuffix(TrimSpace(line), <<"*", "/">>)

isBoneyard(line, prevType) ==
    LET l == TrimSpace(line)
    IN  \/ HasPrefix(l, <<"/", "*">>) /\ HasSuffix(l, <<"*", "/">>)
        \/ isBoneyardStart(l, prevType)
        \/ isBoneyardEnd(l, prevType)

isPageFeed(line, prevType) == TrimSpace(line) = <<"=", "=", "=">>

isSection(line, prevType) == HasPrefix(TrimSpace(line), <<"#">>)

isSynopsis(line, prevType) == HasPrefix(TrimSpace(line), <<"=">>)

\* ------------------------------------------------------------------------
\* getLineType: the switch of the classifier, first true case wins
\* ------------------------------------------------------------------------
\* getLineType with the Transition case moved in front of the Action case
getLineTypeTransitionFirst(line, prevType) ==
    IF isPageFeed(line, prevType) THEN PageFeed
    ELSE IF isTitlePage(line, prevType) THEN TitlePageType
    ELSE IF isSection(line, prevType) THEN SectionType
    ELSE IF isSynopsis(line, prevType) THEN SynopsisType
    ELSE IF isNote(line, prevType) THEN NoteType
    ELSE IF isLyric(line, prevType) THEN LyricType
    ELSE IF isSceneHeading(line, prevType) THEN SceneHeadingType
    ELSE IF isTransition(line, prevType) THEN TransitionType
    ELSE IF isAction(line, prevType) THEN ActionType
    ELSE IF isCharacter(line, prevType) THEN CharacterType
    ELSE IF isParenthetical(line, prevType) THEN ParentheticalType
    ELSE IF isDialogue(line, prevType) THEN DialogueType
    ELSE IF isBoneyard(line, prevType) THEN BoneyardType
    ELSE IF isEmpty(line, prevType) THEN EmptyType
    ELSE IF isCenterAlignment(line, prevType) THEN CenterAlignment
    ELSE GeneralTextType

\* getLineType with the CenterAlignment case moved in front of the Transition case
getLineTypeCenterFirst(line, prevType) ==
    IF isPageFeed(line, prevType) THEN PageFeed
    ELSE IF isTitlePage(line, prevType) THEN TitlePageType
    ELSE IF isSection(line, prevType) THEN SectionType
    ELSE IF isSynopsis(line, prevType) THEN SynopsisType
    ELSE IF isNote(line, prevType) THEN NoteType
    ELSE IF isLyric(line, prevType) THEN LyricType
    ELSE IF isSceneHeading(line, prevType) THEN SceneHeadingType
    ELSE IF isAction(line, prevType) THEN ActionType
    ELSE IF isCenterAlignment(line, prevType) THEN CenterAlignment
    ELSE IF isTransition(line, prevType) THEN TransitionType
    ELSE IF isCharacter(line, prevType) THEN CharacterType
    ELSE IF isParenthetical(line, prevType) THEN ParentheticalType
    ELSE IF isDialogue(line, prevType) THEN DialogueType
    ELSE IF isBoneyard(line, prevType) THEN BoneyardType
    ELSE IF isEmpty(line, prevType) THEN EmptyType
    ELSE GeneralTextType

getLineType(line, prevType) ==
    IF isPageFeed(line, prevType) THEN PageFeed
    ELSE IF isTitlePage(line, prevType) THEN TitlePageType
    ELSE IF isSection(line, prevType) THEN SectionType
    ELSE IF isSynopsis(line, prevType) THEN SynopsisType
    ELSE IF isNote(line, prevType) THEN NoteType
    ELSE IF isLyric(line, prevType) THEN LyricType
    ELSE IF isSceneHeading(line, prevType) THEN SceneHeadingType
    ELSE IF isAction(line, prevType) THEN ActionType
    ELSE IF isTransition(line, prevType) THEN TransitionType
    ELSE IF isCharacter(line, prevType) THEN CharacterType
    ELSE IF isParenthetical(line, prevType) THEN ParentheticalType
    ELSE IF isDialogue(line, prevType) THEN DialogueType
    ELSE IF isBoneyard(line, prevType) THEN BoneyardType
    ELSE IF isEmpty(line, prevType) THEN EmptyType
    ELSE IF isCenterAlignment(line, prevType) THEN CenterAlignment
    ELSE GeneralTextType

\* ------------------------------------------------------------------------
\* typeName: the display name of a type
\* ------------------------------------------------------------------------
typeName(t) ==
    CASE t = PageFeed -> <<"P", "a", "g", "e", " ", "F", "e", "e", "d">>
      [] t = GeneralTextType -> <<"G", "e", "n", "e", "r", "a", "l", " ", "T", "e", "x", "t">>
      [] t = EmptyType -> <<"E", "m", "p", "t", "y">>
      [] t = TitlePageType -> <<"T", "i", "t", "l", "e", " ", "P", "a", "g", "e">>
      [] t = TransitionType -> <<"T", "r", "a", "n", "s", "i", "t", "i", "o", "n">>
      [] t = SceneHeadingType -> <<"S", "c", "e", "n", "e", " ", "H", "e", "a", "d", "i", "n", "g">>
      [] t = ActionType -> <<"A", "c", "t", "i", "o", "n">>
      [] t = CharacterType -> <<"C", "h", "a", "r", "a", "c", "t", "e", "r">>
      [] t = DialogueType -> <<"D", "i", "a", "l", "o", "g", "u", "e">>
      [] t = ParentheticalType -> <<"P", "a", "r", "e", "n", "t", "h", "e", "t", "i", "c", "a", "l">>
      [] t = LyricType -> <<"L", "y", "r", "i", "c">>
      [] t = NoteType -> <<"N", "o", "t", "e">>
      [] t = BoneyardType -> <<"B", "o", "n", "e", "y", "a", "r", "d">>
      [] t = UnderlineStyle -> <<"U", "n", "d", "e", "r", "l", "i", "n", "e">>
      [] t = ItalicStyle -> <<"I", "t", "a", "l", "i", "c">>
      [] t = BoldStyle -> <<"B", "o", "l", "d">>
      [] t = AllCapsStyle -> <<"A", "l", "l", "C", "a", "p", "s">>
      [] t = Strikethrough -> <<"S", "t", "r", "i", "k", "e", "t", "h", "r", "o", "u", "g", "h">>
      [] t = CenterAlignment -> <<"C", "e", "n", "t", "e", "r">>
      [] t = LeftAlignment -> <<"L", "e", "f", "t">>
      [] t = RightAlignment -> <<"R", "i", "g", "h", "t">>
      [] t = SectionType -> <<"S", "e", "c", "t", "i", "o", "n">>
      [] t = SynopsisType -> <<"S", "y", "n", "o", "p", "s", "i", "s">>
      [] OTHER -> <<>>

\* ------------------------------------------------------------------------
\* Element and the pieces of Parse's loop body
\* ------------------------------------------------------------------------
Element(type, name, content) == [Type |-> type, Name |-> name, Content |-> content]

\* isEndOfScript comparing the content without upper-casing it
isEndOfScriptCaseSensitive(element) ==
    /\ element.Type = SceneHeadingType
    /\ TrimSpace(element.Content) \in EndMarkers

isEndOfScript(element) ==
    /\ element.Type = SceneHeadingType
    /\ ToUpper(TrimSpace(element.Content)) \in EndMarkers

\* TitlePageLine splitting the key from the value at the last colon
TitlePageLineLastColon(titlePage, line) ==
    IF Contains(line, <<":">>)
    THEN LET c == CHOOSE i \in 1..Len(line) :
                      line[i] = ":" /\ \A j \in (i + 1)..Len(line) : line[j] # ":"
         IN  Append(titlePage, Element(TitlePageType, SubSeq(line, 1, c - 1),
                                       SubSeq(line, c + 1, Len(line))))
    ELSE LET i == Len(titlePage)
         IN  IF i = 0
             THEN Append(titlePage, Element(TitlePageType,
                             <<"U", "n", "k", "n", "o", "w", "n">>, line))
             ELSE [titlePage EXCEPT ![i].Content = @ \o <<"\n">> \o line]

\* TitlePageLine replacing the content of the last entry by a line that
\* continues it
TitlePageLineReplace(titlePage, line) ==
    IF Contains(line, <<":">>)
    THEN LET c == IndexOf(line, ":")
         IN  Append(titlePage, Element(TitlePageType, SubSeq(line, 1, c - 1),
                                       SubSeq(line, c + 1, Len(line))))
    ELSE LET i == Len(titlePage)
         IN  IF i = 0
             THEN Append(titlePage, Element(TitlePageType,
                             <<"U", "n", "k", "n", "o", "w", "n">>, line))
             ELSE [titlePage EXCEPT ![i].Content = line]

\* case TitlePageType: a key/value line starts an entry, any other line
\* continues the last entry (or starts the "Unknown" entry)
TitlePageLine(titlePage, line) ==
    IF Contains(line, <<":">>)
    THEN LET c == IndexOf(line, ":")
         IN  Append(titlePage, Element(TitlePageType, SubSeq(line, 1, c - 1),
                                       SubSeq(line, c + 1, Len(line))))
    ELSE LET i == Len(titlePage)
         IN  IF i = 0
             THEN Append(titlePage, Element(TitlePageType,
                             <<"U", "n", "k", "n", "o", "w", "n">>, line))
             ELSE [titlePage EXCEPT ![i].Content = @ \o <<"\n">> \o line]

\* MergeLine overwriting the content of the last element with the line
MergeLineOverwrite(elements, line) ==
    LET i == Len(elements)
    IN  [elements EXCEPT ![i].Name = typeName(elements[i].Type),
                         ![i].Content = line]

\* default case, prevType == currentType, i >= 0: the line joins the last element
MergeLine(elements, line) ==
    LET i == Len(elements)
    IN  [elements EXCEPT ![i].Name = typeName(elements[i].Type),
                         ![i].Content = @ \o <<"\n">> \o line]

\* NewElement leaving the name of the element unset
NewElementNoName(currentType, line) == Element(currentType, <<>>, line)

\* NewElement typing every element GeneralText, as the lines read after the
\* end of the script are typed
NewElementAsText(currentType, line) ==
    Element(GeneralTextType, typeName(GeneralTextType), line)

\* default case, prevType != currentType: a new element
NewElement(currentType, line) == Element(currentType, typeName(currentType), line)

\* the element appended for a line read after the end of the script
EndOfScriptElement(line) == Element(GeneralTextType, typeName(GeneralTextType), line)

\* the corrective pass correcting nothing
fixCharactersNone(elements, i, prevElementType) == elements

\* The corrective pass over the Character elements: the loop from index i on,
\* prevElementType being the (possibly corrected) type of the element before.
RECURSIVE fixCharacters(_, _, _)
fixCharacters(elements, i, prevElementType) ==
    IF i > Len(elements) THEN elements
    ELSE LET lastElement == Len(elements)
             retype == /\ elements[i].Type = CharacterType
                       /\ prevElementType = EmptyType
                       /\ i < lastElement
                       /\ elements[i + 1].Type \notin {DialogueType, ParentheticalType}
             fixed == IF retype THEN [elements EXCEPT ![i].Type = GeneralTextType]
                      ELSE elements
         IN  IF fixed[i].Type = SceneHeadingType /\ isEndOfScript(fixed[i])
             THEN fixed
             ELSE fixCharacters(fixed, i + 1, fixed[i].Type)

\* ------------------------------------------------------------------------
\* Inputs
\* ------------------------------------------------------------------------
MaxLines == 4

\* the lines a script is made of
ScriptLines ==
    { <<>>,
      <<"T", ":", "a", ":", "b">>,
      <<"b", "y">>,
      <<"I", "N", "T", ".", " ", "A">>,
      <<"T", "H", "E", " ", "E", "N", "D">>,
      <<"l", "a", " ", "f", "i", "n", ".">>,
      <<"B", "O", "B">>,
      <<"(", "x", ")">>,
      <<"@", "a", "l">>,
      <<">", "X", "<">>,
      <<"=", "=", "=">> }

\* lines handed to the classifier alone: the script lines and the other shapes
ClassifierLines ==
    ScriptLines \cup
    { <<" ", " ">>,
      <<"!", "A">>,
      <<"C", "U", "T", " ", "T", "O", ":">>,
      <<"F", "A", "D", "E", " ", "I", "N", ":">>,
      <<"F", "A", "D", "E", " ", "T", "O", " ", "x">>,
      <<">", "x">>,
      <<" ", ">", "X", "<">>,
      <<"\"", "H", "I", "\"">>,
      <<"A", " ", "-", "-">>,
      <<"A", "-", "-", "B">>,
      <<"L", "O", "W", " ", "A", "N", "G", "L", "E">>,
      <<"E", "X", "T", ".", " ", "B">>,
      <<".", "x">>,
      <<"A", " ", "#", "1", "#">>,
      <<"~", "l", "a">>,
      <<"~", "l", "a", "~">>,
      <<"#", " ", "s">>,
      <<"=", " ", "s">>,
      <<"[", "[", "n">>,
      <<"n", "]", "]">>,
      <<"[", "[", "n", "]", "]">>,
      <<"/", "*", "c">>,
      <<"c", "*", "/">>,
      <<"/", "*", "c", "*", "/">>,
      <<"(", "x">>,
      <<" ", "(", "x", ")">>,
      <<"T", "H", "E", " ", "E", "N", "D", ".">>,
      <<"x", " ", "T", "H", "E", " ", "E", "N", "D", ".", " ", "x">> }

\* ------------------------------------------------------------------------
\* wordWrap
\* ------------------------------------------------------------------------
\* wordWrapLoop losing the word that does not fit the line
RECURSIVE wordWrapLoopDropWord(_, _, _, _)
wordWrapLoopDropWord(words, width, buf, l) ==
    IF words = <<>> THEN buf
    ELSE LET word == Head(words)
         IN  IF l + Len(word) < width
             THEN IF Len(buf) > 0
                  THEN wordWrapLoopDropWord(Tail(words), width,
                                    buf \o <<<<" ">>, word>>, l + Len(word) + 1)
                  ELSE wordWrapLoopDropWord(Tail(words), width,
                                    buf \o <<word>>, l + Len(word))
             ELSE wordWrapLoopDropWord(Tail(words), width, buf \o <<<<"\n">>>>, 0)

\* the loop over the words: buf is the list of pieces, l the running length
RECURSIVE wordWrapLoop(_, _, _, _)
wordWrapLoop(words, width, buf, l) ==
    IF words = <<>> THEN buf
    ELSE LET word == Head(words)
         IN  IF l + Len(word) < width
             THEN IF Len(buf) > 0
                  THEN wordWrapLoop(Tail(words), width,
                                    buf \o <<<<" ">>, word>>, l + Len(word) + 1)
                  ELSE wordWrapLoop(Tail(words), width,
                                    buf \o <<word>>, l + Len(word))
             ELSE wordWrapLoop(Tail(words), width, buf \o <<<<"\n">>, word>>, 0)

wordWrap(line, width) ==
    IF Len(line) <= width THEN line
    ELSE Concat(wordWrapLoop(Split(line, " "), width, <<>>, 0)) \o <<"\n">>

\* ------------------------------------------------------------------------
\* blockWrap
\* ------------------------------------------------------------------------
\* the loop of blockWrap with l set to 0 after a line break
RECURSIVE blockWrapLoopResetZero(_, _, _, _, _)
blockWrapLoopResetZero(words, padding, width, buf, l) ==
    IF words = <<>> THEN buf
    ELSE LET word == Head(words)
         IN  IF l + Len(word) < width
             THEN IF Len(buf) > 0
                  THEN blockWrapLoopResetZero(Tail(words), padding, width,
                                     buf \o <<<<" ">>, word>>, l + Len(word) + 1)
                  ELSE blockWrapLoopResetZero(Tail(words), padding, width,
                                     buf \o <<padding, word>>, l + Len(padding) + Len(word))
             ELSE blockWrapLoopResetZero(Tail(words), padding, width,
                                buf \o <<<<"\n">>, padding, word>>, 0)

\* the loop over the words; width is already reduced by the padding
RECURSIVE blockWrapLoop(_, _, _, _, _)
blockWrapLoop(words, padding, width, buf, l) ==
    IF words = <<>> THEN buf
    ELSE LET word == Head(words)
         IN  IF l + Len(word) < width
             THEN IF Len(buf) > 0
                  THEN blockWrapLoop(Tail(words), padding, width,
                                     buf \o <<<<" ">>, word>>, l + Len(word) + 1)
                  ELSE blockWrapLoop(Tail(words), padding, width,
                                     buf \o <<padding, word>>, l + Len(padding) + Len(word))
             ELSE blockWrapLoop(Tail(words), padding, width,
                                buf \o <<<<"\n">>, padding, word>>,
                                Len(padding) + Len(word))

blockWrap(line, padding, width) ==
    LET w == width - Len(padding)
    IN  IF Len(padding) + Len(line) <= w THEN padding \o line
        ELSE Concat(blockWrapLoop(Split(line, " "), padding, w, <<>>, 0)) \o <<"\n">>

\* strings.Repeat(" ", n)
Spaces(n) == [i \in 1..n |-> " "]

\* ------------------------------------------------------------------------
\* CharacterName
\* ------------------------------------------------------------------------
\* strings.Join(parts, sep)
RECURSIVE Join(_, _)
Join(parts, sep) ==
    IF parts = <<>> THEN <<>>
    ELSE IF Len(parts) = 1 THEN parts[1]
    ELSE parts[1] \o sep \o Join(Tail(parts), sep)

\* strings.TrimSuffix(s, suffix)
TrimSuffix(s, suffix) ==
    IF HasSuffix(s, suffix) THEN SubSeq(s, 1, Len(s) - Len(suffix)) ELSE s

\* strings.TrimPrefix(s, prefix)
TrimPrefix(s, prefix) ==
    IF HasPrefix(s, prefix) THEN SubSeq(s, Len(prefix) + 1, Len(s)) ELSE s

\* the loop over contentParts: the names kept from the parts
RECURSIVE characterNames(_)
characterNames(contentParts) ==
    IF contentParts = <<>> THEN <<>>
    ELSE LET content == TrimSpace(Head(contentParts))
         IN  IF ~(content = <<>>
                  \/ (HasPrefix(content, <<"(">>) /\ HasSuffix(content, <<")">>)))
             THEN <<TrimSuffix(TrimSuffix(content, <<"'", "s">>), <<"'", "S">>)>>
                  \o characterNames(Tail(contentParts))
             ELSE characterNames(Tail(contentParts))

CharacterName(element) ==
    LET content == TrimSpace(element.Content)
        characters ==
            IF element.Type = CharacterType
               /\ ~(HasPrefix(content, <<"\"">>) /\ HasSuffix(content, <<"\"">>))
            THEN characterNames(Split(element.Content, " "))
            ELSE <<>>
    IN  IF Len(characters) > 1
           /\ ToUpper(characters[Len(characters)]) = <<"V", "O", "I", "C", "E">>
        THEN Join(SubSeq(characters, 1, Len(characters) - 1), <<" ">>)
        ELSE Join(characters, <<" ">>)

MaxTokens == 3

\* the pieces the contents handed to CharacterName are made of
NameTokens ==
    { <<>>, <<"A">>, <<"(", "x", ")">>, <<"B", "'", "s">>, <<"c", "'", "S">>,
      <<"V", "O", "I", "C", "E">>, <<"v", "o", "i", "c", "e">>,
      <<"\"", "Q", "\"">> }

NameSeparators == {" ", "\t"}

\* toks[1] seps[1] toks[2] ... toks[n]
RECURSIVE Interleave(_, _)
Interleave(toks, seps) ==
    IF Len(toks) = 1 THEN toks[1]
    ELSE toks[1] \o <<seps[1]>> \o Interleave(Tail(toks), Tail(seps))

NameContents ==
    UNION { { Interleave(toks, seps) :
                toks \in [1..n -> NameTokens], seps \in [1..(n - 1) -> NameSeparators] }
            : n \in 1..MaxTokens }

\* ------------------------------------------------------------------------
\* The alignment functions and createElement
\* ------------------------------------------------------------------------
LowerChar(c) ==
    IF \E i \in 1..26 : UpperLetters[i] = c
    THEN LowerLetters[CHOOSE i \in 1..26 : UpperLetters[i] = c]
    ELSE c

ToLower(s) == [i \in 1..Len(s) |-> LowerChar(s[i])]

\* strings.Replace(s, " ", "-", -1)
ReplaceSpaces(s) == [i \in 1..Len(s) |-> IF s[i] = " " THEN "-" ELSE s[i]]

centerAlignText(line, width) ==
    IF Len(line) >= width THEN line
    ELSE Spaces((width - Len(line)) \div 2) \o line

\* strings.TrimSpace of every member of a list of lines
TrimLines(ls) == [i \in 1..Len(ls) |-> TrimSpace(ls[i])]

leftAlignText(line, width) ==
    IF ~Contains(line, <<"\n">>) THEN TrimSpace(line)
    ELSE Join(TrimLines(Split(line, "\n")), <<"\n">>)

\* the loop of rightAlignText over the lines: the padding and the line are
\* appended to src as two entries
RECURSIVE rightAlignLines(_, _)
rightAlignLines(ls, width) ==
    IF ls = <<>> THEN <<>>
    ELSE LET line == TrimSpace(Head(ls))
             l == Len(line)
         IN  (IF l >= width THEN <<line>> ELSE <<Spaces(width - l), line>>)
             \o rightAlignLines(Tail(ls), width)

rightAlignText(line, width) ==
    IF ~Contains(line, <<"\n">>)
    THEN LET t == TrimSpace(line)
             l == Len(t)
         IN  IF l >= width THEN t ELSE Spaces(width - l) \o t
    ELSE Join(rightAlignLines(Split(line, "\n"), width), <<"\n">>)

\* createElement: the format chosen and the values it is filled with
createElement(elem, classes, content) ==
    IF Len(classes) > 0
    THEN IF elem \in {"hr", "p"}
         THEN [format |-> "<%s class=%q>\n", elem |-> elem,
               classes |-> classes, content |-> <<>>]
         ELSE [format |-> "<%s class=%q>%s</%s>\n", elem |-> elem,
               classes |-> classes, content |-> content]
    ELSE IF elem \in {"hr", "p"}
         THEN [format |-> "<%s>", elem |-> elem, classes |-> <<>>, content |-> <<>>]
         ELSE [format |-> "<%s>%s</%s>\n", elem |-> elem,
               classes |-> <<>>, content |-> content]

\* a piece of literal markup in the output of ToHTML
Markup(text) == [format |-> text, elem |-> "", classes |-> <<>>, content |-> <<>>]

\* the class of a title page entry, from its lower-cased name
TitleClass(name) ==
    LET n == ToLower(name)
    IN  CASE n = <<"t", "i", "t", "l", "e">> -> "title"
          [] n = <<"a", "u", "t", "h", "o", "r">> -> "author"
          [] n = <<"d", "r", "a", "f", "t", " ", "d", "a", "t", "e">> -> "draft-date"
          [] n = <<"d", "a", "t", "e">> -> "draft-date"
          [] n = <<"c", "o", "p", "y", "r", "i", "g", "h", "t">> -> "copyright"
          [] n = <<"c", "o", "n", "t", "a", "c", "t">> -> "contact"
          [] OTHER -> "general-text"

\* Element.ToHTML for a Transition element
TransitionToHTML(element) ==
    LET s == TrimSpace(element.Content)
    IN  IF HasPrefix(s, <<">">>) /\ HasSuffix(s, <<"<">>)
        THEN createElement("div", <<"transition", "centered">>,
                           TrimPrefix(TrimSuffix(s, <<"<">>), <<">">>))
        ELSE IF HasPrefix(s, <<">">>)
        THEN createElement("div", <<"transition", "right-align">>, TrimPrefix(s, <<">">>))
        ELSE IF HasSuffix(s, <<".">>) \/ HasSuffix(s, <<"I", "N", ":">>)
        THEN createElement("div", <<"transition", "left-align">>, s)
        ELSE createElement("div", <<"transition", "right-align">>, ToUpper(element.Content))

\* Element.ToHTML
ElementToHTML(element) ==
    CASE element.Type = TitlePageType ->
             createElement("div", <<TitleClass(element.Name)>>, element.Content)
      [] element.Type = SceneHeadingType ->
             createElement("div", <<"scene-heading">>, ToUpper(TrimSpace(element.Content)))
      [] element.Type = ActionType ->
             createElement("div", <<"action">>, element.Content)
      [] element.Type = CharacterType ->
             createElement("div", <<"character">>, ToUpper(TrimSpace(element.Content)))
      [] element.Type = ParentheticalType ->
             createElement("div", <<"parenthetical">>, TrimSpace(element.Content))
      [] element.Type = DialogueType ->
             createElement("div", <<"dialogue">>, element.Content)
      [] element.Type = TransitionType -> TransitionToHTML(element)
      [] element.Type = CenterAlignment ->
             createElement("div", <<"centered">>, element.Content)
      [] element.Type = LeftAlignment ->
             createElement("div", <<"left-align">>, element.Content)
      [] element.Type = RightAlignment ->
             createElement("div", <<"right-align">>, element.Content)
      [] element.Type = PageFeed -> createElement("hr", <<"page-feed">>, <<>>)
      [] OTHER ->
             createElement("div", <<ToLower(ReplaceSpaces(typeName(element.Type)))>>,
                           element.Content)

DefaultMaxWidth == 64

MaxElements == 2

\* the elements handed to Element.String and Element.ToHTML one at a time
RenderElements ==
    { NewElement(TransitionType, <<"C", "U", "T", " ", "T", "O", ":">>),
      NewElement(TransitionType, <<"F", "A", "D", "E", " ", "I", "N", ":">>),
      NewElement(TransitionType, <<"e", "n", "d", ".">>),
      NewElement(TransitionType, <<">", "x", "<">>),
      NewElement(TransitionType, <<" ", ">", "x", "<", " ">>),
      NewElement(TransitionType, <<">", "x", ".">>),
      NewElement(TransitionType, <<">", "x">>),
      NewElement(TransitionType, <<"@", "a", " ", "T", "O", ":", "\n", "@", "b", " ", "T", "O", ":">>),
      NewElement(TransitionType, <<">", "i", "n", ":", "<">>),
      NewElement(ActionType, <<"a", " ", " ", "b">>),
      NewElement(SceneHeadingType, <<" ", "i", "n", "t", ".", " ", "a">>),
      NewElement(CharacterType, <<" ", "b", "o", "b", " ">>),
      NewElement(ParentheticalType, <<" ", "(", "x", ")", " ">>),
      NewElement(DialogueType, <<"h", "i", " ", "y", "o", "u">>),
      NewElement(NoteType, <<"[", "[", "n", "]", "]">>),
      NewElement(SectionType, <<"#", " ", "s">>),
      NewElement(SynopsisType, <<"=", " ", "s">>),
      NewElement(PageFeed, <<"=", "=", "=">>),
      NewElement(CenterAlignment, <<" ", "c">>),
      NewElement(LeftAlignment, <<" ", "l", " ", "\n", " ", "m">>),
      NewElement(RightAlignment, <<"r", " ", "\n", " ", "q">>),
      NewElement(LyricType, <<"~", "l", "a">>) }

\* the elements the rendered documents are made of
DocElements ==
    { NewElement(ActionType, <<" ", "a", " ", "b", " ">>),
      NewElement(TransitionType, <<">", "x", ".">>),
      NewElement(NoteType, <<"[", "[", "n", "]", "]">>),
      NewElement(CharacterType, <<"b", "o", "b">>) }

\* the title pages of the rendered documents: none, or the entry of a line
RenderTitlePages == { <<>>, TitlePageLine(<<>>, <<"T", "i", "t", "l", "e", ":", " ", "x">>) }

\* the documents rendered
RenderDocs ==
    { [TitlePage |-> tp, Elements |-> es] :
        tp \in RenderTitlePages,
        es \in UNION { [1..n -> DocElements] : n \in 0..MaxElements } }

\* the built-in default style sheet
SourceCSS == <<"SourceCSS">>

\* the link element of getCSSLink
StyleLink ==
    [format |-> "<link rel=%q href=%q>\n", elem |-> "link",
     classes |-> <<>>, content |-> <<"fountain.css">>]

\* the style sheet read by getCSS
StyleSheet == [format |-> "%s", elem |-> "", classes |-> <<>>, content |-> <<"CSS">>]

\* getCSSLink and getCSS as ToHTML calls them: a text and an error
getCSSLink(fails) == [src |-> IF fails THEN Markup("") ELSE StyleLink, err |-> fails]

getCSS(fails) == [src |-> IF fails THEN Markup("") ELSE StyleSheet, err |-> fails]

MaxLineLen == 6
MaxWrapWidth == 5
MaxPadding == 2

\* the widths MaxWidth is set to
RenderWidths == {MaxWrapWidth, DefaultMaxWidth}

\* the lines handed to wordWrap: words of two letters, and spaces
WrapLines == UNION { [1..n -> {"a", "b", " "}] : n \in 0..MaxLineLen }

\* the lines handed to blockWrap: words of one letter, and spaces
BlockLines == UNION { [1..n -> {"a", " "}] : n \in 0..MaxLineLen }

\* the value of cType before any call: no element type
NoResult == PageFeed + 1

\* bufio.MaxScanTokenSize, the size of the buffer of the scanner Parse makes
MaxScanTokenSize == 65536

\* a line of that many bytes
LongLine == [i \in 1..MaxScanTokenSize |-> "x"]

\* the lines of the inputs of Parse
InputLines == ScriptLines \cup {LongLine}

\* ------------------------------------------------------------------------
\* State
\* ------------------------------------------------------------------------
VARIABLES
    pc,               \* where Parse is: "scan", "done", "error", "panic"
    prevType,         \* Parse's prevType
    foundEndOfScript, \* Parse's foundEndOfScript
    TitlePage,        \* document.TitlePage
    Elements,         \* document.Elements
    lines,            \* the lines scanner.Text() has returned so far
    lineTypes,        \* the type Parse gave each of them
    cLine, cPrev,     \* the arguments of the last call of getLineType
    cType,            \* and its result
    wFn,              \* the wrap function last called: "wordWrap", "blockWrap"
    wLine, wPadding,  \* its arguments (the padding is blockWrap's alone)
    wWidth,
    wOut,             \* and its result
    nCalled,          \* CharacterName has been called
    nElement,         \* on this element
    nOut,             \* with this result
    MaxWidth, AsHTMLPage, InlineCSS, LinkCSS,     \* the package's options
    ShowSection, ShowSynopsis, ShowNotes, PrettyPrint,
    doc,              \* a document handed to the renderers
    rFn,              \* the renderer last called on doc
    rIn,              \* whether getCSSLink and getCSS failed in that call
    rOut,             \* and what it returned
    eElement,         \* an element rendered on its own
    eCalled,          \* the methods called on it: "String", "ToHTML"
    eText,            \* what its String() returned
    eHTML             \* what its ToHTML() returned

parseVars == <<pc, prevType, foundEndOfScript, TitlePage, Elements, lines, lineTypes>>
classifyVars == <<cLine, cPrev, cType>>
wrapVars == <<wFn, wLine, wPadding, wWidth, wOut>>
nameVars == <<nCalled, nElement, nOut>>
optionVars == <<MaxWidth, AsHTMLPage, InlineCSS, LinkCSS,
                ShowSection, ShowSynopsis, ShowNotes, PrettyPrint>>
docVars == <<doc, rFn, rIn, rOut>>
elementVars == <<eElement, eCalled, eText, eHTML>>
renderVars == <<optionVars, docVars, elementVars>>
vars == <<parseVars, classifyVars, wrapVars, nameVars, renderVars>>

\* Parse is entered, and no function has been called yet
InitCalls ==
    /\ pc = "scan"
    /\ prevType = TitlePageType
    /\ foundEndOfScript = FALSE
    /\ TitlePage = <<>>
    /\ Elements = <<>>
    /\ lines = <<>>
    /\ lineTypes = <<>>
    /\ cLine = <<>> /\ cPrev = TitlePageType /\ cType = NoResult
    /\ wFn = "" /\ wLine = <<>> /\ wPadding = <<>> /\ wWidth = 0 /\ wOut = <<>>
    /\ nCalled = FALSE /\ nElement = Element(GeneralTextType, <<>>, <<>>) /\ nOut = <<>>
    /\ rFn = "" /\ rIn = [link |-> FALSE, css |-> FALSE] /\ rOut = <<>>
    /\ eCalled = {} /\ eText = <<>> /\ eHTML = Markup("")

\* new(Fountain)
EmptyDoc == [TitlePage |-> <<>>, Elements |-> <<>>]

\* the package's variables as they are declared
Init ==
    /\ InitCalls
    /\ MaxWidth = DefaultMaxWidth
    /\ AsHTMLPage = FALSE /\ InlineCSS = FALSE /\ LinkCSS = FALSE
    /\ ShowSection = FALSE /\ ShowSynopsis = FALSE /\ ShowNotes = FALSE
    /\ PrettyPrint = FALSE
    /\ doc = EmptyDoc
    /\ eElement = Element(GeneralTextType, <<>>, <<>>)

\* One iteration of the scan loop of Parse on the next line of the input,
\* a line that fits the scanner's buffer.
ScanLine(line) ==
    /\ pc = "scan"
    /\ Len(lines) < MaxLines
    /\ Len(line) < MaxScanTokenSize
    /\ lines' = Append(lines, line)
    /\ UNCHANGED <<classifyVars, wrapVars, nameVars, renderVars>>
    /\ IF ~foundEndOfScript
       THEN LET currentType == getLineType(line, prevType)
            IN  /\ lineTypes' = Append(lineTypes, currentType)
                /\ IF currentType = TitlePageType
                   THEN /\ TitlePage' = TitlePageLine(TitlePage, line)
                        /\ prevType' = currentType
                        /\ UNCHANGED <<Elements, foundEndOfScript, pc>>
                   ELSE IF prevType = currentType
                   THEN IF Len(Elements) = 0
                        THEN \* document.Elements[0] on an empty slice
                             /\ pc' = "panic"
                             /\ UNCHANGED <<Elements, TitlePage, prevType, foundEndOfScript>>
                        ELSE /\ Elements' = MergeLine(Elements, line)
                             /\ prevType' = currentType
                             /\ UNCHANGED <<TitlePage, foundEndOfScript, pc>>
                   ELSE LET element == NewElement(currentType, line)
                        IN  /\ Elements' = Append(Elements, element)
                            /\ foundEndOfScript' =
                                   IF element.Type = SceneHeadingType
                                   THEN isEndOfScript(element)
                                   ELSE foundEndOfScript
                            /\ prevType' = currentType
                            /\ UNCHANGED <<TitlePage, pc>>
       ELSE /\ Elements' = Append(Elements, EndOfScriptElement(line))
            /\ lineTypes' = Append(lineTypes, GeneralTextType)
            /\ UNCHANGED <<TitlePage, prevType, foundEndOfScript, pc>>

Scan == \E line \in InputLines : ScanLine(line)

\* scanner.Scan() returns false at the end of the input with no error:
\* the corrective pass runs and Parse returns (document, nil).
ScanEnd ==
    /\ pc = "scan"
    /\ Elements' = fixCharacters(Elements, 1, TitlePageType)
    /\ pc' = "done"
    /\ UNCHANGED <<prevType, foundEndOfScript, TitlePage, lines, lineTypes>>
    /\ UNCHANGED <<classifyVars, wrapVars, nameVars, renderVars>>

\* scanner.Scan() returns false because the next line does not fit the
\* scanner's buffer (bufio.ErrTooLong): Parse returns (document, err)
\* without running the corrective pass.
ScanError ==
    /\ pc = "scan"
    /\ Len(lines) < MaxLines
    /\ \E line \in InputLines : Len(line) >= MaxScanTokenSize
    /\ pc' = "error"
    /\ UNCHANGED <<prevType, foundEndOfScript, TitlePage, Elements, lines, lineTypes>>
    /\ UNCHANGED <<classifyVars, wrapVars, nameVars, renderVars>>

Next == Scan \/ ScanEnd \/ ScanError

Spec == Init /\ [][Next]_vars

\* the lines of a script that holds notes: a page feed, the opening line of
\* a note, a line of text, the closing line of a note and a blank line
NoteLines ==
    { <<"=", "=", "=">>,
      <<"[", "[", "n">>,
      <<"b", "y">>,
      <<"n", "]", "]">>,
      <<>> }

\* one turn of the scanner loop of Parse over a script that holds notes
ScanNote == \E line \in NoteLines : ScanLine(line)

NextNotes == ScanNote \/ ScanEnd

\* Parse of a script that holds notes
SpecNotes == Init /\ [][NextNotes]_vars

\* A call of getLineType on a line and a previous type.
Classify ==
    /\ cType = NoResult
    /\ \E line \in ClassifierLines, prev \in AllTypes :
        /\ cLine' = line
        /\ cPrev' = prev
        /\ cType' = getLineType(line, prev)
        /\ UNCHANGED <<parseVars, wrapVars, nameVars, renderVars>>

NextClassify == Classify

SpecClassify == Init /\ [][NextClassify]_vars

\* A call of wordWrap, as Element.String() makes it for an Action element.
WordWrap ==
    /\ wFn = ""
    /\ \E line \in WrapLines, width \in 1..MaxWrapWidth :
        /\ wFn' = "wordWrap"
        /\ wLine' = line
        /\ wPadding' = <<>>
        /\ wWidth' = width
        /\ wOut' = wordWrap(line, width)
        /\ UNCHANGED <<parseVars, classifyVars, nameVars, renderVars>>

\* A call of blockWrap, as Element.String() makes it for a Dialogue element.
BlockWrap ==
    /\ wFn = ""
    /\ \E line \in BlockLines, p \in 0..MaxPadding, width \in 1..MaxWrapWidth :
        /\ wFn' = "blockWrap"
        /\ wLine' = line
        /\ wPadding' = Spaces(p)
        /\ wWidth' = width
        /\ wOut' = blockWrap(line, Spaces(p), width)
        /\ UNCHANGED <<parseVars, classifyVars, nameVars, renderVars>>

NextWrap == WordWrap \/ BlockWrap

SpecWrap == Init /\ [][NextWrap]_vars

\* A call of CharacterName on a Character element, or on an element of
\* another type.
Name ==
    /\ ~nCalled
    /\ \E content \in NameContents, type \in {CharacterType, ActionType} :
        /\ nCalled' = TRUE
        /\ nElement' = Element(type, typeName(type), content)
        /\ nOut' = CharacterName(Element(type, typeName(type), content))
        /\ UNCHANGED <<parseVars, classifyVars, wrapVars, renderVars>>

NextName == Name

SpecName == Init /\ [][NextName]_vars

\* ------------------------------------------------------------------------
\* The renderers
\* ------------------------------------------------------------------------
\* Element.String for a Transition element
TransitionString(element) ==
    LET s == TrimSpace(element.Content)
    IN  IF HasSuffix(s, <<".">>) \/ HasSuffix(s, <<"I", "N", ":">>)
        THEN leftAlignText(s, MaxWidth)
        ELSE IF HasPrefix(s, <<">">>) /\ HasSuffix(s, <<"<">>)
        THEN centerAlignText(ToUpper(element.Content), MaxWidth)
        ELSE rightAlignText(ToUpper(element.Content), MaxWidth)

\* Element.String
ElementString(element) ==
    CASE element.Type = TitlePageType -> element.Name \o <<":">> \o element.Content
      [] element.Type = SceneHeadingType -> ToUpper(TrimSpace(element.Content))
      [] element.Type = ActionType -> wordWrap(element.Content, MaxWidth)
      [] element.Type = CharacterType ->
             Spaces(16) \o ToUpper(TrimSpace(element.Content))
      [] element.Type = ParentheticalType -> Spaces(12) \o TrimSpace(element.Content)
      [] element.Type = DialogueType -> blockWrap(element.Content, Spaces(8), MaxWidth)
      [] element.Type = TransitionType -> TransitionString(element)
      [] element.Type = CenterAlignment -> centerAlignText(element.Content, MaxWidth)
      [] element.Type = LeftAlignment -> leftAlignText(element.Content, MaxWidth)
      [] element.Type = RightAlignment -> rightAlignText(element.Content, MaxWidth)
      [] element.Type = NoteType -> IF ShowNotes THEN element.Content ELSE <<>>
      [] element.Type = SectionType -> IF ShowSection THEN element.Content ELSE <<>>
      [] element.Type = SynopsisType -> IF ShowSynopsis THEN element.Content ELSE <<>>
      [] element.Type = PageFeed -> <<"\f">>
      [] OTHER -> element.Content

\* the loop of Fountain.String over doc.Elements
RECURSIVE ElementStrings(_)
ElementStrings(elements) ==
    IF elements = <<>> THEN <<>>
    ELSE LET elem == Head(elements)
         IN  (CASE elem.Type = NoteType -> IF ShowNotes THEN <<elem.Content>> ELSE <<>>
                [] elem.Type = SectionType -> IF ShowSection THEN <<elem.Content>> ELSE <<>>
                [] elem.Type = SynopsisType -> IF ShowSynopsis THEN <<elem.Content>> ELSE <<>>
                [] OTHER -> <<ElementString(elem)>>)
             \o ElementStrings(Tail(elements))

\* Fountain.String
FountainString(d) ==
    Join((IF d.TitlePage # <<>>
          THEN [i \in 1..Len(d.TitlePage) |-> ElementString(d.TitlePage[i])] \o <<<<"\n">>>>
          ELSE <<>>)
         \o ElementStrings(d.Elements), <<"\n">>)

\* Fountain.ToHTML: the pieces of out, which the function joins with nothing
\* between them; link and css are what getCSSLink and getCSS return
FountainToHTML(d, link, css) ==
    LET pageSrc ==
            IF InlineCSS
            THEN IF css.err THEN createElement("style", <<>>, SourceCSS) ELSE css.src
            ELSE IF LinkCSS THEN link.src ELSE Markup("")
        opening ==
            IF AsHTMLPage
            THEN IF LinkCSS \/ InlineCSS
                 THEN <<Markup("<!DOCTYPE html>\n<html>\n\t<head>\n"), pageSrc,
                        Markup("\n\t</head>\n\t<body>\n")>>
                 ELSE <<Markup("<!DOCTYPE html>\n<html>\n\t<body>\n\t    <sectiom class=\"fountain\">\n"),
                        pageSrc>>
            ELSE (IF LinkCSS THEN <<link.src>> ELSE <<>>)
                 \o (IF InlineCSS /\ ~css.err THEN <<css.src>> ELSE <<>>)
                 \o <<Markup("<section class=\"fountain\">\n")>>
        titlePage ==
            IF d.TitlePage # <<>>
            THEN <<Markup("<section class=\"title-page\">\n")>>
                 \o [i \in 1..Len(d.TitlePage) |-> ElementToHTML(d.TitlePage[i])]
                 \o <<Markup("</section>\n")>>
            ELSE <<>>
        script ==
            IF d.Elements # <<>>
            THEN <<Markup("<section class=\"script\">\n")>>
                 \o [i \in 1..Len(d.Elements) |-> ElementToHTML(d.Elements[i])]
                 \o <<Markup("</section>\n")>>
            ELSE <<>>
        closing ==
            IF AsHTMLPage
            THEN <<Markup("\n        </section>\n\t</body>\n</html>\n")>>
            ELSE <<Markup("</section>")>>
    IN  opening \o titlePage \o script \o closing

\* encoding/json on a slice of elements: null for a nil slice, and the name
\* of an element left out when it is empty
JSONElements(elements) ==
    [null |-> elements = <<>>,
     items |-> [i \in 1..Len(elements) |->
                   [type |-> elements[i].Type,
                    name |-> IF elements[i].Name = <<>> THEN <<>> ELSE <<elements[i].Name>>,
                    content |-> elements[i].Content]]]

\* Fountain.ToJSON
FountainToJSON(d) ==
    [src |-> [indent |-> IF PrettyPrint THEN Spaces(4) ELSE <<>>,
              TitlePage |-> JSONElements(d.TitlePage),
              Elements |-> JSONElements(d.Elements)],
     err |-> FALSE]

\* Fountain.ToYAML: the encoder writes into buf, and src is returned
FountainToYAML(d) ==
    LET src == <<>>
        buf == [indent |-> Spaces(2),
                TitlePage |-> JSONElements(d.TitlePage),
                Elements |-> JSONElements(d.Elements)]
    IN  [src |-> src, err |-> FALSE]

\* String trimming the content of the elements it prints in place
StringCallTrimming(d) ==
    [doc |-> [d EXCEPT !.Elements =
                 [i \in 1..Len(d.Elements) |->
                     [d.Elements[i] EXCEPT !.Content = TrimSpace(@)]]],
     out |-> FountainString(d)]

\* the four renderers called on the document d through its pointer: the
\* document after the call, and what the call returns
StringCall(d) == [doc |-> d, out |-> FountainString(d)]

ToHTMLCall(d, link, css) == [doc |-> d, out |-> FountainToHTML(d, link, css)]

ToJSONCall(d) == [doc |-> d, out |-> FountainToJSON(d)]

ToYAMLCall(d) == [doc |-> d, out |-> FountainToYAML(d)]

\* a document, with the options set as a caller may set them
InitRender ==
    /\ InitCalls
    /\ MaxWidth = DefaultMaxWidth
    /\ AsHTMLPage \in BOOLEAN /\ InlineCSS \in BOOLEAN /\ LinkCSS \in BOOLEAN
    /\ ShowSection \in BOOLEAN /\ ShowSynopsis \in BOOLEAN /\ ShowNotes \in BOOLEAN
    /\ PrettyPrint \in BOOLEAN
    /\ doc \in RenderDocs
    /\ eElement = Element(GeneralTextType, <<>>, <<>>)

RenderUnchanged ==
    UNCHANGED <<parseVars, classifyVars, wrapVars, nameVars, optionVars, elementVars>>

String ==
    /\ rFn' = "String"
    /\ rIn' = [link |-> FALSE, css |-> FALSE]
    /\ rOut' = StringCall(doc).out
    /\ doc' = StringCall(doc).doc
    /\ RenderUnchanged

ToHTML ==
    \E linkFails \in BOOLEAN, cssFails \in BOOLEAN :
        LET call == ToHTMLCall(doc, getCSSLink(linkFails), getCSS(cssFails))
        IN  /\ rFn' = "ToHTML"
            /\ rIn' = [link |-> LinkCSS /\ linkFails, css |-> InlineCSS /\ cssFails]
            /\ rOut' = call.out
            /\ doc' = call.doc
            /\ RenderUnchanged

ToJSON ==
    /\ rFn' = "ToJSON"
    /\ rIn' = [link |-> FALSE, css |-> FALSE]
    /\ rOut' = ToJSONCall(doc).out
    /\ doc' = ToJSONCall(doc).doc
    /\ RenderUnchanged

ToYAML ==
    /\ rFn' = "ToYAML"
    /\ rIn' = [link |-> FALSE, css |-> FALSE]
    /\ rOut' = ToYAMLCall(doc).out
    /\ doc' = ToYAMLCall(doc).doc
    /\ RenderUnchanged

NextRender == String \/ ToHTML \/ ToJSON \/ ToYAML

SpecRender == InitRender /\ [][NextRender]_vars

\* an element to render on its own, with the options String reads
InitElement ==
    /\ InitCalls
    /\ MaxWidth \in RenderWidths
    /\ AsHTMLPage = FALSE /\ InlineCSS = FALSE /\ LinkCSS = FALSE
    /\ ShowSection \in BOOLEAN /\ ShowSynopsis \in BOOLEAN /\ ShowNotes \in BOOLEAN
    /\ PrettyPrint = FALSE
    /\ doc = EmptyDoc
    /\ eElement \in RenderElements

ElementUnchanged ==
    UNCHANGED <<parseVars, classifyVars, wrapVars, nameVars, optionVars, docVars>>

\* element.String()
StringElement ==
    /\ "String" \notin eCalled
    /\ eCalled' = eCalled \cup {"String"}
    /\ eText' = ElementString(eElement)
    /\ UNCHANGED <<eElement, eHTML>>
    /\ ElementUnchanged

\* element.ToHTML()
ToHTMLElement ==
    /\ "ToHTML" \notin eCalled
    /\ eCalled' = eCalled \cup {"ToHTML"}
    /\ eHTML' = ElementToHTML(eElement)
    /\ UNCHANGED <<eElement, eText>>
    /\ ElementUnchanged

NextElement == StringElement \/ ToHTMLElement

SpecElement == InitElement /\ [][NextElement]_vars

\* ------------------------------------------------------------------------
\* The classifier's priority order
\* ------------------------------------------------------------------------
\* the fourteen predicates in the order the specification gives them
PredicateHolds(k, line, prev) ==
    CASE k = 1 -> isPageFeed(line, prev)
      [] k = 2 -> isTitlePage(line, prev)
      [] k = 3 -> isSection(line, prev)
      [] k = 4 -> isSynopsis(line, prev)
      [] k = 5 -> isNote(line, prev)
      [] k = 6 -> isLyric(line, prev)
      [] k = 7 -> isSceneHeading(line, prev)
      [] k = 8 -> isAction(line, prev)
      [] k = 9 -> isTransition(line, prev)
      [] k = 10 -> isCharacter(line, prev)
      [] k = 11 -> isParenthetical(line, prev)
      [] k = 12 -> isDialogue(line, prev)
      [] k = 13 -> isBoneyard(line, prev)
      [] k = 14 -> isEmpty(line, prev)

PredicateType ==
    <<PageFeed, TitlePageType, SectionType, SynopsisType, NoteType, LyricType,
      SceneHeadingType, ActionType, TransitionType, CharacterType,
      ParentheticalType, DialogueType, BoneyardType, EmptyType>>

FirstMatch(line, prev) ==
    LET holding == {k \in 1..14 : PredicateHolds(k, line, prev)}
    IN  IF holding = {} THEN GeneralTextType
        ELSE PredicateType[CHOOSE k \in holding : \A j \in holding : k <= j]

\* C1: for every line and previous type, getLineType returns the type of the
\* first predicate that holds in the order page feed, title page, section,
\* synopsis, note, lyric, scene heading, action, transition, character,
\* parenthetical, dialogue, boneyard, empty, and GeneralText when none holds.
C1_FirstMatchWins ==
    cType # NoResult => cType = FirstMatch(cLine, cPrev)

\* a line on which several predicates hold (Transition, Character and the
\* centre alignment test) has been classified by the first of them
C1_Witness ==
    /\ cType = TransitionType
    /\ isCharacter(cLine, cPrev)
    /\ isCenterAlignment(cLine, cPrev)

\* ------------------------------------------------------------------------
\* Word wrap
\* ------------------------------------------------------------------------
\* the words of the content are separated by single spaces
SingleSpaced(line) ==
    line = <<>> \/ \A i \in 1..Len(Split(line, " ")) : Split(line, " ")[i] # <<>>

OutputLines(out) == Split(out, "\n")

\* C10: every line of wordWrap(content, w) is at most w long, except a line
\* made of one single word longer than w.
C10_WordWrapBound ==
    (wFn = "wordWrap" /\ SingleSpaced(wLine)) =>
        \A i \in 1..Len(OutputLines(wOut)) :
            LET ln == OutputLines(wOut)[i]
            IN  Len(ln) <= wWidth \/ ~Contains(ln, <<" ">>)

\* ------------------------------------------------------------------------
\* The document against the lines read
\* ------------------------------------------------------------------------
ContentLines(element) == Split(element.Content, "\n")

RECURSIVE CountLines(_)
CountLines(elements) ==
    IF elements = <<>> THEN 0
    ELSE Len(ContentLines(Head(elements))) + CountLines(Tail(elements))

RECURSIVE JoinLines(_)
JoinLines(ls) ==
    IF Len(ls) = 1 THEN ls[1] ELSE ls[1] \o <<"\n">> \o JoinLines(Tail(ls))

\* the lines read that were given the type TitlePage, and the others
TitleLineIndexes == {i \in 1..Len(lineTypes) : lineTypes[i] = TitlePageType}
BodyLineIndexes == {i \in 1..Len(lineTypes) : lineTypes[i] # TitlePageType}

\* the k-th smallest member of a set of numbers
Kth(S, k) == CHOOSE x \in S : Cardinality({y \in S : y < x}) = k - 1

\* the body lines in source order
BodyInput == [k \in 1..Cardinality(BodyLineIndexes) |-> lines[Kth(BodyLineIndexes, k)]]

RECURSIVE BodyOutput(_)
BodyOutput(elements) ==
    IF elements = <<>> THEN <<>>
    ELSE ContentLines(Head(elements)) \o BodyOutput(Tail(elements))

Returned == pc = "done"

\* the index in lines of the first line of the element at j
FirstLineOf(j) == Cardinality(TitleLineIndexes) + CountLines(SubSeq(Elements, 1, j - 1)) + 1

\* C2: classification is total: every line read is given exactly one type and
\* lies in exactly one element of TitlePage or Elements, and the scan never
\* aborts.
C2_Total ==
    /\ pc # "panic"
    /\ Len(lineTypes) = Len(lines)
    /\ \A i \in 1..Len(lineTypes) : lineTypes[i] \in AllTypes
    /\ CountLines(TitlePage) = Cardinality(TitleLineIndexes)
    /\ BodyOutput(Elements) = BodyInput

\* a returned document with a title page and a body element of two lines
C2_Witness ==
    /\ Returned
    /\ Len(lines) >= 3
    /\ TitlePage # <<>>
    /\ \E j \in 1..Len(Elements) : Len(ContentLines(Elements[j])) = 2

\* C3: in the returned document no two adjacent entries of Elements have the
\* same type.
C3_NoAdjacentSameType ==
    Returned =>
        \A j \in 1..(Len(Elements) - 1) : Elements[j].Type # Elements[j + 1].Type

\* the first line of each maximal run of body lines of one type
RunStarts ==
    {i \in BodyLineIndexes : i = 1 \/ lineTypes[i - 1] # lineTypes[i]}

RunEnd(a) ==
    CHOOSE b \in a..Len(lineTypes) :
        /\ \A i \in a..b : lineTypes[i] = lineTypes[a]
        /\ b = Len(lineTypes) \/ lineTypes[b + 1] # lineTypes[a]

\* C4: every maximal run of k consecutive lines of one (non-TitlePage) type
\* is exactly one element, whose Content is the k lines joined by line breaks.
C4_RunMerging ==
    Returned =>
        /\ Len(Elements) = Cardinality(RunStarts)
        /\ \A k \in 1..Len(Elements) :
               LET a == Kth(RunStarts, k)
               IN  Elements[k].Content = JoinLines(SubSeq(lines, a, RunEnd(a)))

\* an element is an end-of-script marker, in the words of the specification
IsEndMarker(element) ==
    /\ element.Type = SceneHeadingType
    /\ ToUpper(TrimSpace(element.Content)) \in
           { <<"T", "H", "E", " ", "E", "N", "D">>,
             <<"T", "H", "E", " ", "E", "N", "D", ".">>,
             <<"L", "A", " ", "F", "I", "N">>,
             <<"L", "A", " ", "F", "I", "N", ".">> }

\* C5: every element after a SceneHeading element that is an end-of-script
\* marker has the type GeneralText.
C5_EndOfScriptLockIn ==
    \A i \in 1..Len(Elements) :
        IsEndMarker(Elements[i]) =>
            \A j \in (i + 1)..Len(Elements) : Elements[j].Type = GeneralTextType

\* a returned document with two elements after a lower-case marker, the last
\* of them a line shaped like a scene heading
C5_Witness ==
    /\ Returned
    /\ \E i \in 1..Len(Elements) :
           /\ IsEndMarker(Elements[i])
           /\ Elements[i].Content # ToUpper(Elements[i].Content)
           /\ Len(Elements) >= i + 2
           /\ isSceneHeading(Elements[Len(Elements)].Content, GeneralTextType)

\* the element at j is a Character after an Empty that no Dialogue or
\* Parenthetical follows
StrayCharacter(j) ==
    /\ Elements[j].Type = CharacterType
    /\ j > 1
    /\ Elements[j - 1].Type = EmptyType
    /\ ~(j < Len(Elements)
         /\ Elements[j + 1].Type \in {DialogueType, ParentheticalType})

\* C6 as stated: the returned document has no Character element after an Empty
\* element that is not followed by a Dialogue or Parenthetical, the last
\* element included.
C6_NoStrayCharacter ==
    Returned => \A j \in 1..Len(Elements) : ~StrayCharacter(j)

\* C6 amended: the same for every element but the last one.
C6_NoStrayCharacterButLast ==
    Returned => \A j \in 1..(Len(Elements) - 1) : ~StrayCharacter(j)

\* a returned document where the corrective pass has retyped a Character
C6_Witness ==
    /\ Returned
    /\ \E j \in 2..(Len(Elements) - 1) :
           /\ lineTypes[FirstLineOf(j)] = CharacterType
           /\ Elements[j].Type = GeneralTextType
           /\ Elements[j - 1].Type = EmptyType

\* C7: the title page is a prefix of the parse: its entries have the type
\* TitlePage, hold exactly the lines classified TitlePage, and no line is
\* classified TitlePage after a line of another type.
C7_TitlePagePrefix ==
    /\ \A i \in 1..Len(TitlePage) : TitlePage[i].Type = TitlePageType
    /\ CountLines(TitlePage) = Cardinality(TitleLineIndexes)
    /\ \A i \in 1..Len(lineTypes) : \A j \in (i + 1)..Len(lineTypes) :
           lineTypes[i] # TitlePageType => lineTypes[j] # TitlePageType

\* a key/value line read after the title page has ended
C7_Witness ==
    \E i \in 1..Len(lines) : \E j \in (i + 1)..Len(lines) :
        /\ lineTypes[i] # TitlePageType
        /\ 1 \in TitleLineIndexes
        /\ isTitlePage(lines[j], TitlePageType)

\* the step reads a line and classifies it TitlePage
ReadsTitleLine ==
    /\ Len(lines') = Len(lines) + 1
    /\ lineTypes'[Len(lines')] = TitlePageType

\* C8: a line classified TitlePage that has a colon becomes a new TitlePage
\* entry, Name before the first colon and Content after it; one without a
\* colon is joined by a line break to the Content of the last entry, or starts
\* the entry named Unknown; Elements is unchanged.
C8_TitlePageLine ==
    [][ReadsTitleLine =>
         LET line == lines'[Len(lines')]
             n == Len(TitlePage)
         IN  /\ Elements' = Elements
             /\ (\E c \in 1..Len(line) : line[c] = ":") =>
                    \E c \in 1..Len(line) :
                        /\ line[c] = ":"
                        /\ \A d \in 1..(c - 1) : line[d] # ":"
                        /\ TitlePage' = Append(TitlePage,
                               [Type |-> TitlePageType,
                                Name |-> SubSeq(line, 1, c - 1),
                                Content |-> SubSeq(line, c + 1, Len(line))])
             /\ (\A c \in 1..Len(line) : line[c] # ":") =>
                    IF n = 0
                    THEN TitlePage' = << [Type |-> TitlePageType,
                                          Name |-> <<"U", "n", "k", "n", "o", "w", "n">>,
                                          Content |-> line] >>
                    ELSE /\ Len(TitlePage') = n
                         /\ \A i \in 1..(n - 1) : TitlePage'[i] = TitlePage[i]
                         /\ TitlePage'[n].Name = TitlePage[n].Name
                         /\ TitlePage'[n].Content = TitlePage[n].Content \o <<"\n">> \o line
    ]_vars

\* a title page with an entry of key T, value a:b, continued by another line
C8_Witness ==
    /\ Len(TitlePage) >= 1
    /\ TitlePage[1].Name = <<"T">>
    /\ HasPrefix(TitlePage[1].Content, <<"a", ":", "b", "\n">>)

\* C9 as stated: every entry of Elements of the returned document has an empty
\* Name.
C9_BodyNameAbsent ==
    Returned => \A j \in 1..Len(Elements) : Elements[j].Name = <<>>

\* C9 amended: the Name of every entry of Elements is the display name of the
\* type the element was created with (so it is never empty, and an element
\* retyped by the corrective pass keeps the name Character).
C9_BodyNameIsTypeName ==
    Returned =>
        \A j \in 1..Len(Elements) :
            /\ Elements[j].Name = typeName(lineTypes[FirstLineOf(j)])
            /\ Elements[j].Name # <<>>

\* a returned document with a title page entry and a named body element of
\* one line
C9_Witness ==
    /\ Returned
    /\ TitlePage # <<>>
    /\ \E j \in 1..Len(Elements) :
           /\ Elements[j].Name = <<"S", "c", "e", "n", "e", " ", "H", "e", "a", "d", "i", "n", "g">>
           /\ Len(ContentLines(Elements[j])) = 1

\* ------------------------------------------------------------------------
\* blockWrap's bound, wordWrap's words
\* ------------------------------------------------------------------------
\* an output line of blockWrap without its left padding
Unpadded(ln) ==
    IF HasPrefix(ln, wPadding) THEN SubSeq(ln, Len(wPadding) + 1, Len(ln)) ELSE ln

\* C11 as stated: every line of blockWrap(content, padding, w), counted with
\* its padding, is at most w long, except a line whose single word is longer
\* than w.
C11_BlockWrapBound ==
    wFn = "blockWrap" =>
        \A i \in 1..Len(OutputLines(wOut)) :
            LET ln == OutputLines(wOut)[i]
            IN  \/ Len(ln) <= wWidth
                \/ ~Contains(Unpadded(ln), <<" ">>) /\ Len(Unpadded(ln)) > wWidth

\* C11 amended: the exception is a line whose single word is longer than w
\* less the width of the padding.
C11_BlockWrapBoundLessPadding ==
    wFn = "blockWrap" =>
        \A i \in 1..Len(OutputLines(wOut)) :
            LET ln == OutputLines(wOut)[i]
            IN  \/ Len(ln) <= wWidth
                \/ /\ ~Contains(Unpadded(ln), <<" ">>)
                   /\ Len(Unpadded(ln)) > wWidth - Len(wPadding)

\* a padded content wrapped into two lines, one of them of two words
C11_Witness ==
    /\ wFn = "blockWrap"
    /\ wPadding # <<>>
    /\ Len(OutputLines(wOut)) >= 3
    /\ \E i \in 1..Len(OutputLines(wOut)) :
           Contains(Unpadded(OutputLines(wOut)[i]), <<"a", " ", "a">>)

\* the words of a text: the pieces between spaces and line breaks, in order
RECURSIVE Words(_)
Words(s) ==
    LET seps == {i \in 1..Len(s) : s[i] \in {" ", "\n"}}
    IN  IF seps = {} THEN (IF s = <<>> THEN <<>> ELSE <<s>>)
        ELSE LET i == CHOOSE k \in seps : \A j \in seps : k <= j
             IN  (IF i = 1 THEN <<>> ELSE <<SubSeq(s, 1, i - 1)>>)
                 \o Words(SubSeq(s, i + 1, Len(s)))

\* C12: the words of wordWrap's output are the words of the input line, in
\* order, and a line no longer than the width is returned unchanged.
C12_WordsKept ==
    wFn = "wordWrap" =>
        /\ Words(wOut) = Words(wLine)
        /\ Len(wLine) <= wWidth => wOut = wLine

\* a line of different words wrapped into several lines
C12_Witness ==
    /\ wFn = "wordWrap"
    /\ Len(OutputLines(wOut)) >= 4
    /\ Len(Words(wLine)) >= 3
    /\ Contains(wLine, <<"a">>) /\ Contains(wLine, <<"b">>)

\* ------------------------------------------------------------------------
\* The character's name
\* ------------------------------------------------------------------------
\* the tokens of a content: the non-empty pieces between white space
RECURSIVE Fields(_)
Fields(s) ==
    LET seps == {i \in 1..Len(s) : IsSpace(s[i])}
    IN  IF seps = {} THEN (IF s = <<>> THEN <<>> ELSE <<s>>)
        ELSE LET i == CHOOSE k \in seps : \A j \in seps : k <= j
             IN  (IF i = 1 THEN <<>> ELSE <<SubSeq(s, 1, i - 1)>>)
                 \o Fields(SubSeq(s, i + 1, Len(s)))

\* the tokens that are not fully parenthesized, without their 's or 'S
RECURSIVE NamedTokens(_)
NamedTokens(toks) ==
    IF toks = <<>> THEN <<>>
    ELSE IF HasPrefix(Head(toks), <<"(">>) /\ HasSuffix(Head(toks), <<")">>)
    THEN NamedTokens(Tail(toks))
    ELSE <<TrimSuffix(TrimSuffix(Head(toks), <<"'", "s">>), <<"'", "S">>)>>
         \o NamedTokens(Tail(toks))

StatedName(content) ==
    LET t == TrimSpace(content)
        toks == NamedTokens(Fields(content))
    IN  IF HasPrefix(t, <<"\"">>) /\ HasSuffix(t, <<"\"">>) THEN <<>>
        ELSE IF Len(toks) > 1 /\ ToUpper(toks[Len(toks)]) = <<"V", "O", "I", "C", "E">>
        THEN Join(SubSeq(toks, 1, Len(toks) - 1), <<" ">>)
        ELSE Join(toks, <<" ">>)

\* C13: on a Character element CharacterName returns nothing for a quoted
\* content, and otherwise the whitespace-separated tokens of the content
\* that are neither empty nor fully parenthesized, without their 's or 'S,
\* joined by single spaces, less a last token VOICE when more than one remains.
C13_CharacterName ==
    (nCalled /\ nElement.Type = CharacterType) => nOut = StatedName(nElement.Content)

C16_StylesheetFallback ==
    (rFn = "ToHTML" /\ rIn.css) =>
        \E i \in 1..Len(rOut) : rOut[i] = createElement("style", <<>>, SourceCSS)

\* ------------------------------------------------------------------------
\* The transitions
\* ------------------------------------------------------------------------
\* a text aligned to the left, to the centre and to the right of a width
StatedLeft(text) == Join(TrimLines(Split(text, "\n")), <<"\n">>)

StatedCentre(text, width) ==
    IF Len(text) >= width THEN text ELSE Spaces((width - Len(text)) \div 2) \o text

StatedRightLine(line, width) ==
    IF Len(line) >= width THEN line ELSE Spaces(width - Len(line)) \o line

StatedRight(text, width) ==
    LET ls == TrimLines(Split(text, "\n"))
    IN  Join([i \in 1..Len(ls) |-> StatedRightLine(ls[i], width)], <<"\n">>)

StatedTransition(content, width) ==
    LET s == TrimSpace(content)
    IN  IF HasSuffix(s, <<".">>) \/ HasSuffix(s, <<"I", "N", ":">>)
        THEN StatedLeft(s)
        ELSE IF HasPrefix(s, <<">">>) /\ HasSuffix(s, <<"<">>)
        THEN StatedCentre(ToUpper(TrimSpace(TrimPrefix(TrimSuffix(s, <<"<">>), <<">">>))),
                          width)
        ELSE StatedRight(ToUpper(s), width)

\* C17: String() of a Transition element is the content left-aligned when
\* the trimmed content ends with '.' or 'IN:', else the content upper-cased
\* and centred without its '>' and '<' when it has them, else the content
\* upper-cased and right-aligned to the width.
C17_TransitionText ==
    ("String" \in eCalled /\ eElement.Type = TransitionType) =>
        eText = StatedTransition(eElement.Content, MaxWidth)

\* the alignment seen in the text of a one-line transition
TextAlignment ==
    LET first == IndexOf([i \in 1..Len(eText) |-> IF eText[i] = " " THEN " " ELSE "x"], "x")
    IN  IF first <= 1 THEN "left-align"
        ELSE IF Len(eText) = MaxWidth THEN "right-align"
        ELSE "centered"

\* C18: for a Transition element the alignment class of ToHTML() is the
\* alignment String() gives the text.
C18_SameAlignment ==
    (eCalled = {"String", "ToHTML"} /\ eElement.Type = TransitionType
        /\ ~Contains(eElement.Content, <<"\n">>) /\ MaxWidth = DefaultMaxWidth) =>
        eHTML.classes[2] = TextAlignment

\* ------------------------------------------------------------------------
\* The errors of Parse
\* ------------------------------------------------------------------------
\* C15: Parse reads its input from memory, where reading cannot fail, so it
\* returns no error whatever the lines are: neither their shape, nor their
\* length, nor their order makes it return one.
C15_NoContentError == pc # "error"

\* ------------------------------------------------------------------------
\* Parentheticals and the boneyard
\* ------------------------------------------------------------------------
\* C19: getLineType returns Parenthetical only when the previous type is
\* Character or Dialogue.
C19_ParentheticalAfterCue ==
    cType = ParentheticalType => cPrev \in {CharacterType, DialogueType}

\* C20: a line that opens a block comment with '/*', or closes one with '*/'
\* after a Boneyard line, is classified Boneyard, unless one of the rules
\* placed before Boneyard, the catch-all Action apart, claims the line.
C20_BoneyardClassified ==
    (/\ cType # NoResult
     /\ isBoneyard(cLine, cPrev)
     /\ \A k \in (1..12) \ {8} : ~PredicateHolds(k, cLine, cPrev)) =>
        cType = BoneyardType

\* ------------------------------------------------------------------------
\* Blank lines, tags and transitions in the classifier
\* ------------------------------------------------------------------------
\* C21: a blank line is classified Empty whenever the previous type is not
\* TitlePage, Empty included, and is not classified Empty when the previous
\* type is TitlePage.
C21_BlankIsEmpty ==
    (cType # NoResult /\ TrimSpace(cLine) = <<>>) =>
        IF cPrev = TitlePageType THEN cType # EmptyType ELSE cType = EmptyType

\* the style and alignment tags, and ShotType
TagTypes ==
    {UnderlineStyle, ItalicStyle, BoldStyle, AllCapsStyle, Strikethrough,
     CenterAlignment, LeftAlignment, RightAlignment, ShotType}

\* C23: for every line and every previous type getLineType returns no style
\* tag, no alignment tag and not ShotType.
C23_NoTagAssigned == cType \notin TagTypes

\* a line that isCenterAlignment accepts has been classified, as Transition
C23_Witness ==
    /\ cType = TransitionType
    /\ isCenterAlignment(cLine, cPrev)
    /\ cPrev = EmptyType

\* a line with a leading '>' or a trailing 'TO:' or 'IN:'
Marked(line) ==
    \/ HasPrefix(TrimSpace(line), <<">">>)
    \/ HasSuffix(line, <<"T", "O", ":">>)
    \/ HasSuffix(line, <<"I", "N", ":">>)

\* Transition is returned only for a line that is also a Character, a
\* Parenthetical or a Dialogue by its predicate
TransitionOnlyForCues ==
    cType = TransitionType =>
        \/ isCharacter(cLine, cPrev)
        \/ isParenthetical(cLine, cPrev)
        \/ isDialogue(cLine, cPrev)

C24_YAMLReturned ==
    (rFn = "ToYAML" /\ (doc.TitlePage # <<>> \/ doc.Elements # <<>>)) =>
        (rOut.err \/ rOut.src # <<>>)

\* ------------------------------------------------------------------------
\* Notes over several lines
\* ------------------------------------------------------------------------
\* the line opens a note and does not close it
OpensNote(line) ==
    /\ HasPrefix(TrimSpace(line), <<"[", "[">>)
    /\ ~HasSuffix(TrimSpace(line), <<"]", "]">>)

\* the line closes a note
ClosesNote(line) == HasSuffix(TrimSpace(line), <<"]", "]">>)

\* line k is the first line after line i that closes a note, and no line
\* from i to k is blank
NoteSpan(i, k) ==
    /\ lineTypes[i] = NoteType
    /\ OpensNote(lines[i])
    /\ ClosesNote(lines[k])
    /\ \A j \in (i + 1)..(k - 1) : ~ClosesNote(lines[j])
    /\ \A j \in i..k : TrimSpace(lines[j]) # <<>>

\* C22: when a line opens a note with '[[' and a later line closes it with
\* ']]', with no blank line in between, every line from the opening line to
\* the closing line, the lines in between included, is classified Note.
C22_NoteSpansLines ==
    \A i \in 1..Len(lineTypes) : \A k \in (i + 1)..Len(lineTypes) :
        NoteSpan(i, k) => \A j \in i..k : lineTypes[j] = NoteType

\* ------------------------------------------------------------------------
\* The merge branch of Parse
\* ------------------------------------------------------------------------
\* prevType is the type of the last element of Elements, or TitlePage while
\* Elements is empty
PrevTypeIsLastType ==
    IF Elements = <<>>
    THEN prevType = TitlePageType
    ELSE prevType = Elements[Len(Elements)].Type

\* C25 as stated: Parse never panics, and at every step of the scan the
\* previous type is the type of the last element of Elements, or TitlePage
\* while Elements is empty.
C25_PrevTypeAlwaysLastType ==
    /\ pc # "panic"
    /\ pc = "scan" => PrevTypeIsLastType

\* C25 as the code has it: Parse never panics, and at every step of the scan
\* that classifies the next line (the end of the script is not found yet) the
\* previous type is the type of the last element of Elements, or TitlePage
\* while Elements is empty.
C25_PrevTypeLastTypeWhileClassifying ==
    /\ pc # "panic"
    /\ (pc = "scan" /\ ~foundEndOfScript) => PrevTypeIsLastType

\* a line was merged into the last element: it has the type of the line
\* before it, which is not TitlePage
C25_Witness ==
    /\ pc = "scan"
    /\ ~foundEndOfScript
    /\ Len(lineTypes) >= 2
    /\ lineTypes[Len(lineTypes)] = lineTypes[Len(lineTypes) - 1]
    /\ lineTypes[Len(lineTypes)] # TitlePageType
    /\ Elements # <<>>
    /\ PrevTypeIsLastType

\* ------------------------------------------------------------------------
\* The source lines in the document
\* ------------------------------------------------------------------------
\* the lines of the title-page entry at j, with 'Name:' put back in front of
\* the first one when the entry was created from a line with a colon
TitleEntryLines(j) ==
    LET first == CountLines(SubSeq(TitlePage, 1, j - 1)) + 1
        ls == ContentLines(TitlePage[j])
    IN  IF Contains(lines[first], <<":">>)
        THEN <<TitlePage[j].Name \o <<":">> \o ls[1]>> \o Tail(ls)
        ELSE ls

RECURSIVE TitleOutput(_)
TitleOutput(j) ==
    IF j > Len(TitlePage) THEN <<>>
    ELSE TitleEntryLines(j) \o TitleOutput(j + 1)

\* C26: Parse loses and reorders no source line: the TitlePage entries then
\* the Elements in order, each Content split at line breaks (and 'Name:'
\* restored in front of a title-page entry created from a line with a colon),
\* give back exactly the lines read, at every step of the scan, after an
\* end-of-script marker and after the corrective pass.
C26_LinesKept == TitleOutput(1) \o BodyOutput(Elements) = lines

\* a returned document whose title page has a key/value entry continued by a
\* second line, and whose body goes on after an end-of-script marker
C26_Witness ==
    /\ Returned
    /\ foundEndOfScript
    /\ Len(Elements) >= 2
    /\ Len(TitlePage) = 1
    /\ Contains(lines[1], <<":">>)
    /\ Len(ContentLines(TitlePage[1])) >= 2

\* ------------------------------------------------------------------------
\* Dialogue
\* ------------------------------------------------------------------------
\* C28: a line that follows a line classified Dialogue is never classified
\* Dialogue, so in the returned document each Dialogue element holds exactly
\* one source line and comes right after a Character or Parenthetical element.
C28_DialogueOneLine ==
    /\ \A i \in 1..(Len(lineTypes) - 1) :
           lineTypes[i] = DialogueType => lineTypes[i + 1] # DialogueType
    /\ Returned =>
           \A j \in 1..Len(Elements) :
               Elements[j].Type = DialogueType =>
                   /\ Len(ContentLines(Elements[j])) = 1
                   /\ j > 1
                   /\ Elements[j - 1].Type \in {CharacterType, ParentheticalType}

\* a returned document where a line of dialogue is followed by a line that
\* would be dialogue after a character cue
C28_Witness ==
    /\ Returned
    /\ \E i \in 1..(Len(lines) - 1) :
           /\ lineTypes[i] = DialogueType
           /\ getLineType(lines[i + 1], CharacterType) = DialogueType
    /\ \E j \in 1..Len(Elements) : Elements[j].Type = DialogueType

\* ------------------------------------------------------------------------
\* Character cues
\* ------------------------------------------------------------------------
\* C29: in the returned document every element of type Character has
\* non-blank content (a blank line is never classified Character).
C29_CharacterNotBlank ==
    Returned =>
        \A j \in 1..Len(Elements) :
            Elements[j].Type = CharacterType => TrimSpace(Elements[j].Content) # <<>>

\* ------------------------------------------------------------------------
\* The end of the script
\* ------------------------------------------------------------------------
\* the line is one of the end-of-script markers
IsMarkerLine(line) == ToUpper(TrimSpace(line)) \in EndMarkers

\* C30: every line whose trimmed, upper-cased text is an end-of-script marker
\* sets the end-of-script flag, whatever the type of the line before it:
\* every line after it is appended as GeneralText.
C30_MarkerEndsScript ==
    \A i \in 1..Len(lines) :
        IsMarkerLine(lines[i]) =>
            /\ foundEndOfScript
            /\ \A k \in (i + 1)..Len(lines) : lineTypes[k] = GeneralTextType

====
